---------------------------- MODULE Spec2Model ----------------------------
(***************************************************************************)
(* Model of the Nemostore EDA dashboard (src/app.py): the load-result      *)
(* cache and load_data, preprocess_data, the sidebar filters of main, the  *)
(* industry-analysis aggregations and the search section.                  *)
(*                                                                         *)
(* A DataFrame is a record [cols, rows]: cols is the set of column names,  *)
(* rows a sequence of functions from cols to cell values.  Numeric cells   *)
(* are exact rationals (pandas floats without rounding) or NaN; text cells *)
(* are sequences of one-character strings or None.  A search keyword is a  *)
(* regular expression, as str.contains reads it, over literal characters   *)
(* and ".".  Every run may leave its widgets at any position they offer;   *)
(* how Streamlit draws a widget is not modelled.                           *)
(***************************************************************************)
EXTENDS Integers, Sequences, FiniteSets, TLC

VARIABLES src, cache, pc, hit, raw_df, df, err, params, filtered_df,
          industry, search_df, stages

vars == <<src, cache, pc, hit, raw_df, df, err, params, filtered_df,
          industry, search_df, stages>>

(***************************************************************************)
(* Bounds of the model.                                                    *)
(***************************************************************************)
\* Longest dataset drawn from the record pool.
MaxRows == 2

(***************************************************************************)
(* Cell values.                                                            *)
(***************************************************************************)
Abs(i) == IF i < 0 THEN -i ELSE i

RECURSIVE GCD(_, _)
GCD(a, b) == IF b = 0 THEN a ELSE GCD(b, a % b)

\* The rational n/d (d > 0) in lowest terms: a pandas number.
Num(n, d) ==
    LET g == GCD(Abs(n), d)
    IN  [k |-> "num", n |-> n \div g, d |-> d \div g]

Int2Num(i) == Num(i, 1)

\* float NaN / None: the null of a numeric or object column.
NaN == [k |-> "nan", n |-> 0, d |-> 1]

IsNaN(v) == v.k = "nan"

\* IEEE arithmetic: NaN propagates.
NumAdd(a, b) ==
    IF IsNaN(a) \/ IsNaN(b) THEN NaN ELSE Num(a.n * b.d + b.n * a.d, a.d * b.d)

NumMul(a, b) ==
    IF IsNaN(a) \/ IsNaN(b) THEN NaN ELSE Num(a.n * b.n, a.d * b.d)

\* a / b for b > 0 (the only division preprocess_data performs).
NumDiv(a, b) ==
    IF IsNaN(a) \/ IsNaN(b) THEN NaN ELSE Num(a.n * b.d, a.d * b.n)

\* IEEE comparisons: every comparison with NaN is False.
NumLE(a, b) == ~IsNaN(a) /\ ~IsNaN(b) /\ a.n * b.d <= b.n * a.d
NumGE(a, b) == NumLE(b, a)
NumGT(a, b) == ~IsNaN(a) /\ ~IsNaN(b) /\ a.n * b.d > b.n * a.d

\* int(x): truncation toward zero; int(NaN) raises ValueError.
IntOf(a) == IF a.n >= 0 THEN a.n \div a.d ELSE -((-a.n) \div a.d)

\* A text cell, and the null of a text column.
Str(s) == [k |-> "str", s |-> s]
None == [k |-> "nan", s |-> <<>>]

\* A parsed timestamp, and pandas' NaT.
Timestamp(y, m, d) == [k |-> "datetime", y |-> y, m |-> m, d |-> d]
NaT == [k |-> "nat", y |-> 0, m |-> 0, d |-> 0]

(***************************************************************************)
(* DataFrames.                                                             *)
(***************************************************************************)
DataFrame(cols, rows) == [cols |-> cols, rows |-> rows]

\* pd.DataFrame()
EmptyDataFrame == DataFrame({}, <<>>)

\* DataFrame.empty: any axis of length 0.
Empty(d) == d.cols = {} \/ Len(d.rows) = 0

Idx(d) == 1 .. Len(d.rows)

\* df[col] = vals: assign (or add) a column from a sequence of values.
SetCol(d, col, vals) ==
    DataFrame(d.cols \cup {col},
              [i \in Idx(d) |->
                  [c \in d.cols \cup {col} |->
                      IF c = col THEN vals[i] ELSE d.rows[i][c]]])

\* df without the column (a source that lacks it).
DropCol(d, col) ==
    DataFrame(d.cols \ {col},
              [i \in Idx(d) |-> [c \in d.cols \ {col} |-> d.rows[i][c]]])

RECURSIVE MaskRows(_, _, _)
MaskRows(rows, mask, i) ==
    IF i > Len(rows) THEN <<>>
    ELSE (IF mask[i] THEN <<rows[i]>> ELSE <<>>) \o MaskRows(rows, mask, i + 1)

\* df[mask]: the rows whose mask entry is True, in their original order.
Where(d, mask) == DataFrame(d.cols, MaskRows(d.rows, mask, 1))

(***************************************************************************)
(* preprocess_data.                                                        *)
(***************************************************************************)
amount_cols == {"deposit", "monthlyRent", "premium", "maintenanceFee"}

\* The unit factor of line 61 (source thousands -> KRW).
UnitFactor == 1000

\* df[col] * 1000
ScaleAmount(v) == NumMul(v, Int2Num(UnitFactor))

RECURSIVE ScaleCols(_, _)
\* Lines 59-61: every amount column that is present is scaled.
ScaleCols(d, todo) ==
    IF todo = {} THEN d
    ELSE LET col == CHOOSE c \in todo : TRUE
             nxt == IF col \in d.cols
                    THEN SetCol(d, col, [i \in Idx(d) |-> ScaleAmount(d.rows[i][col])])
                    ELSE d
         IN  ScaleCols(nxt, todo \ {col})

\* row.get(col, 0): the default only when the column is absent.
RowGet(cols, r, col) == IF col \in cols THEN r[col] ELSE Int2Num(0)

\* viewCount + (favoriteCount * 3), by row.get
calculate_interest_score(cols, r) ==
    NumAdd(RowGet(cols, r, "viewCount"),
           NumMul(RowGet(cols, r, "favoriteCount"), Int2Num(3)))

\* Line 68 raises KeyError: r['size'] is read first, r['monthlyRent'] only
\* for a row whose size is positive.
RentPerAreaRaises(d) ==
    \/ "size" \notin d.cols
    \/ /\ "monthlyRent" \notin d.cols
       /\ \E i \in Idx(d) : NumGT(d.rows[i]["size"], Int2Num(0))

\* RentPerArea with a fault: the ratio is taken of the rent in source units.
RentPerAreaUnconverted(r) ==
    IF NumGT(r["size"], Int2Num(0))
    THEN NumDiv(NumDiv(r["monthlyRent"], Int2Num(UnitFactor)), r["size"])
    ELSE Int2Num(0)

\* (r['monthlyRent'] / r['size']) if r['size'] > 0 else 0
RentPerArea(r) ==
    IF NumGT(r["size"], Int2Num(0))
    THEN NumDiv(r["monthlyRent"], r["size"])
    ELSE Int2Num(0)

Digits == [c \in {"0", "1", "2", "3", "4", "5", "6", "7", "8", "9"} |->
              CASE c = "0" -> 0 [] c = "1" -> 1 [] c = "2" -> 2 [] c = "3" -> 3
                [] c = "4" -> 4 [] c = "5" -> 5 [] c = "6" -> 6 [] c = "7" -> 7
                [] c = "8" -> 8 [] c = "9" -> 9]

IsDigit(c) == c \in DOMAIN Digits

\* The ISO form YYYY-MM-DD, the timestamps of the model's sources.
IsIsoDate(s) ==
    /\ Len(s) = 10
    /\ s[5] = "-" /\ s[8] = "-"
    /\ \A i \in {1, 2, 3, 4, 6, 7, 9, 10} : IsDigit(s[i])
    /\ LET m == 10 * Digits[s[6]] + Digits[s[7]]
           dd == 10 * Digits[s[9]] + Digits[s[10]]
       IN  m \in 1 .. 12 /\ dd \in 1 .. 31

\* Whether pd.to_datetime accepts the cell: a null, a timestamp, or a text
\* that parses.
Parseable(v) ==
    v.k \in {"nan", "nat", "datetime"} \/ (v.k = "str" /\ IsIsoDate(v.s))

\* pd.to_datetime of one cell the call accepts (errors='raise', the default,
\* makes the call raise on any other).
to_datetime(v) ==
    IF v.k \in {"nan", "nat"} THEN NaT
    ELSE IF v.k = "datetime" THEN v
    ELSE Timestamp(1000 * Digits[v.s[1]] + 100 * Digits[v.s[2]]
                     + 10 * Digits[v.s[3]] + Digits[v.s[4]],
                   10 * Digits[v.s[6]] + Digits[v.s[7]],
                   10 * Digits[v.s[9]] + Digits[v.s[10]])

\* Line 72 raises when some value does not parse.
ToDatetimeRaises(d) ==
    /\ "createdDateUtc" \in d.cols
    /\ \E i \in Idx(d) : ~Parseable(d.rows[i]["createdDateUtc"])

\* preprocess_data(df): the exception it ends with ("none": it returns) and
\* the frame as it stands then; the frame is changed in place.
preprocess_data(d) ==
    IF Empty(d) THEN [err |-> "none", df |-> d]
    ELSE
    LET d1 == ScaleCols(d, amount_cols)
        d2 == SetCol(d1, "interestScore",
                     [i \in Idx(d1) |->
                         calculate_interest_score(d1.cols, d1.rows[i])])
    IN  IF RentPerAreaRaises(d2) THEN [err |-> "KeyError", df |-> d2]
        ELSE
        LET d3 == SetCol(d2, "rent_per_area",
                         [i \in Idx(d2) |-> RentPerArea(d2.rows[i])])
        IN  IF ToDatetimeRaises(d3) THEN [err |-> "ValueError", df |-> d3]
            ELSE IF "createdDateUtc" \in d3.cols
            THEN [err |-> "none",
                  df |-> SetCol(d3, "createdDateUtc",
                                [i \in Idx(d3) |->
                                    to_datetime(d3.rows[i]["createdDateUtc"])])]
            ELSE [err |-> "none", df |-> d3]

(***************************************************************************)
(* The listings the model's sources are drawn from.                        *)
(***************************************************************************)
AllCols == {"title", "businessLargeCodeName", "businessMiddleCodeName",
            "nearSubwayStation", "floor", "groundFloor", "deposit", "monthlyRent", "premium",
            "maintenanceFee", "size", "viewCount", "favoriteCount",
            "createdDateUtc"}

\* The columns preprocess_data reads.
ExpectedCols == amount_cols \cup {"size", "viewCount", "favoriteCount",
                                  "createdDateUtc"}

Listing(t, lg, md, st, fl, dep, rent, prem, fee, sz, vc, fc, cr) ==
    [c \in AllCols |->
        CASE c = "title" -> t
          [] c = "businessLargeCodeName" -> lg
          [] c = "businessMiddleCodeName" -> md
          [] c = "nearSubwayStation" -> st
          [] c = "floor" -> fl
          [] c = "groundFloor" -> 1
          [] c = "deposit" -> dep
          [] c = "monthlyRent" -> rent
          [] c = "premium" -> prem
          [] c = "maintenanceFee" -> fee
          [] c = "size" -> sz
          [] c = "viewCount" -> vc
          [] c = "favoriteCount" -> fc
          [] c = "createdDateUtc" -> cr]

Date1 == Str(<<"2", "0", "2", "4", "-", "0", "1", "-", "0", "5">>)
BadDate == Str(<<"s", "o", "o", "n">>)

\* Listings of the stores table, amounts in thousands of KRW.
Listings ==
    { Listing(Str(<<"A", "b">>), "F", "cafe", Str(<<"X", "y">>), 1,
              Int2Num(10), Int2Num(10), Int2Num(0), Int2Num(1),
              Int2Num(1), Int2Num(1), Int2Num(0), Date1),
      Listing(Str(<<"b", ".">>), "F", "bar", None, 2,
              Int2Num(15), Int2Num(5), Int2Num(2), Int2Num(0),
              Num(3, 2), Int2Num(0), Int2Num(1), None),
      Listing(Str(<<"a", "b">>), "S", "gym", Str(<<"x">>), 1,
              Int2Num(0), Int2Num(10), Int2Num(1), Int2Num(0),
              Int2Num(0), Int2Num(0), Int2Num(0), Date1),
      Listing(None, "S", "bar", Str(<<"X", "y">>), 2,
              Int2Num(10), NaN, Int2Num(0), Int2Num(0),
              Int2Num(1), NaN, Int2Num(0), Date1) }

\* The three listings of the worked example: monthlyRent 50, 80, 30 over
\* size 10, 20, 0; viewCount 10, 0, 5 and favoriteCount 2, 0, 1.
Example ==
    << Listing(Str(<<"a">>), "F", "cafe", None, 1,
               Int2Num(100), Int2Num(50), Int2Num(0), Int2Num(0),
               Int2Num(10), Int2Num(10), Int2Num(2), Date1),
       Listing(Str(<<"b">>), "F", "bar", None, 1,
               Int2Num(100), Int2Num(80), Int2Num(0), Int2Num(0),
               Int2Num(20), Int2Num(0), Int2Num(0), Date1),
       Listing(Str(<<"A">>), "S", "gym", None, 1,
               Int2Num(100), Int2Num(30), Int2Num(0), Int2Num(0),
               Int2Num(0), Int2Num(5), Int2Num(1), Date1) >>

\* Listings with a malformed timestamp, a negative and a null size.
OddListings ==
    { Listing(Str(<<"a">>), "F", "cafe", None, 1,
              Int2Num(1), Int2Num(7), Int2Num(0), Int2Num(0),
              Int2Num(3), Int2Num(2), Int2Num(2), BadDate),
      Listing(Str(<<"b">>), "S", "gym", None, 3,
              Num(1, 2), Int2Num(4), NaN, Int2Num(0),
              Int2Num(-1), Int2Num(1), NaN, None),
      Listing(Str(<<"b">>), "S", "gym", None, 3,
              Int2Num(2), Int2Num(4), Int2Num(0), NaN,
              NaN, Int2Num(0), Int2Num(0), Date1) }

\* Every table of at most MaxRows rows over the pool, a listing stored once.
Tables(pool) ==
    UNION { { DataFrame(AllCols, rows) :
                rows \in { f \in [1 .. n -> pool] :
                             \A i, j \in 1 .. n : i # j => f[i] # f[j] } } :
            n \in 0 .. MaxRows }

\* A table as stored, or with one of the expected columns missing.
WithMissingColumn(d) == {d} \cup { DropCol(d, c) : c \in ExpectedCols }

\* Inputs of preprocess_data taken alone.
PreInputs ==
    UNION { WithMissingColumn(d) :
            d \in Tables(Listings \cup OddListings)
                  \cup {DataFrame(AllCols, Example)} }

(***************************************************************************)
(* load_data and its cache.                                                *)
(***************************************************************************)
PrimaryPath == "data/nemo_store.db"
AlternatePath == "data/nemostore.db"

\* What a run can find: the radio's source type, the store paths that exist,
\* whether the store can be queried, the uploaded file ("none" when absent,
\* "bad" when it does not parse) and the table the store or file holds.
Sources ==
    LET held == Tables(Listings)
                \cup { DropCol(t, "size") : t \in Tables(Listings) }
    IN  { [type |-> "DB", paths |-> ps, readable |-> rd, file |-> "none",
           data |-> d] :
          ps \in SUBSET {PrimaryPath, AlternatePath}, rd \in BOOLEAN,
          d \in held }
        \cup
        { [type |-> "CSV", paths |-> {}, readable |-> FALSE, file |-> f,
           data |-> d] :
          f \in {"none", "bad", "good"}, d \in held }

\* Lines 36-50: the relational path.
load_db(s) ==
    LET db_path == IF PrimaryPath \in s.paths THEN PrimaryPath ELSE AlternatePath
    IN  IF db_path \notin s.paths THEN EmptyDataFrame
        ELSE IF s.readable THEN s.data
        ELSE EmptyDataFrame

\* Lines 27-33: the file path.
load_csv(s) == IF s.file = "good" THEN s.data ELSE EmptyDataFrame

\* load_data(source_type, uploaded_file): never raises.
load_data(s, source_type) ==
    IF source_type = "CSV" /\ s.file # "none" THEN load_csv(s) ELSE load_db(s)

\* Whether main calls load_data at all (lines 235-240).
CallsLoad(s) == s.type = "DB" \/ s.file # "none"

\* The source is unavailable or unreadable for the selected type.
SourceUnavailable(s) ==
    IF s.type = "DB"
    THEN s.paths = {} \/ ~s.readable
    ELSE s.file \in {"none", "bad"}

NoEntry == [has |-> FALSE, val |-> EmptyDataFrame]

\* CacheAfterMutation with a fault: the cache keeps the returned object
\* itself (as st.cache_resource does), so the caller's in-place changes
\* reach the entry.
CacheSharesObject(stored, mutated) == mutated

\* st.cache_data stores a pickled snapshot and hands out a fresh copy on
\* every call: what the caller does to its copy does not reach the entry.
CacheAfterMutation(stored, mutated) == stored

(***************************************************************************)
(* The sidebar filters of main.                                            *)
(***************************************************************************)
\* The "전체" entry of both category selectors.
ALL == "ALL"

\* One 만원 in KRW: the display unit of the deposit and rent sliders.
ManWon == 10000

Column(d, col) == [i \in Idx(d) |-> d.rows[i][col]]

Unique(d, col) == { d.rows[i][col] : i \in Idx(d) }

\* Series.max(): the largest non-null value, NaN when there is none.
ColMax(d, col) ==
    LET vals == { d.rows[i][col] : i \in Idx(d) } \ {NaN}
    IN  IF vals = {} THEN NaN
        ELSE CHOOSE v \in vals : \A w \in vals : NumLE(w, v)

\* Series.mean(): the mean of the non-null values, NaN when there is none.
RECURSIVE SumFrom(_, _)
SumFrom(vals, i) ==
    IF i > Len(vals) THEN Int2Num(0)
    ELSE IF IsNaN(vals[i]) THEN SumFrom(vals, i + 1)
    ELSE NumAdd(vals[i], SumFrom(vals, i + 1))

ColMean(d, col) ==
    LET vals == Column(d, col)
        cnt == Cardinality({ i \in Idx(d) : ~IsNaN(vals[i]) })
    IN  IF cnt = 0 THEN NaN ELSE NumDiv(SumFrom(vals, 1), Int2Num(cnt))

\* The columns lines 254-275 index.
FilterCols == {"businessLargeCodeName", "businessMiddleCodeName", "deposit",
               "monthlyRent", "size"}

\* The columns create_overview_section indexes (lines 83-120).
OverviewCols == {"deposit", "monthlyRent", "size", "premium",
                 "businessLargeCodeName", "title"}

\* The upper end of a range slider: int(max / unit).
SliderMax(d, col, unit) == IntOf(NumDiv(ColMax(d, col), Int2Num(unit)))

RangePairs(hi) == { <<lo, up>> \in (0 .. hi) \X (0 .. hi) : lo <= up }

\* filtered_df[filtered_df[col] == selected], skipped for the sentinel.
CategoryFilter(d, col, selected) ==
    IF selected = ALL THEN d
    ELSE Where(d, [i \in Idx(d) |-> d.rows[i][col] = selected])

\* (col >= lo * unit) & (col <= hi * unit)
InRange(v, range, unit) ==
    /\ NumGE(v, Int2Num(range[1] * unit))
    /\ NumLE(v, Int2Num(range[2] * unit))

\* Lines 271-275.
RangeFilter(d, dep_range, rent_range, size_range) ==
    Where(d, [i \in Idx(d) |->
                 /\ InRange(d.rows[i]["deposit"], dep_range, ManWon)
                 /\ InRange(d.rows[i]["monthlyRent"], rent_range, ManWon)
                 /\ InRange(d.rows[i]["size"], size_range, 1)])

NoParams ==
    [selected_large |-> ALL, selected_middle |-> ALL, dep_range |-> <<0, 0>>,
     rent_range |-> <<0, 0>>, size_range |-> <<0, 0>>,
     search_keyword |-> <<>>, subway_keyword |-> <<>>, min_interest |-> 0]

\* The slider defaults of lines 267-269: the full extent.
DefaultRange(hi) == <<0, hi>>

(***************************************************************************)
(* create_industry_analysis.                                               *)
(***************************************************************************)
\* Nothing computed, nothing shown.
NoData == [k |-> "nodata", n |-> 0, d |-> 1]

\* ShowsMetrics with a fault: the emptiness guard of lines 132 and 169 is gone.
ShowsMetricsUnguarded(d) == TRUE

\* if not df.empty (lines 132 and 169)
ShowsMetrics(d) == ~Empty(d)

\* df.groupby(key)[col].mean(): one entry per distinct key.
GroupMeans(d, key, col) ==
    { [key |-> g,
       mean |-> ColMean(Where(d, [i \in Idx(d) |-> d.rows[i][key] = g]), col)] :
      g \in Unique(d, key) }

\* Descending by mean, null means last.
Descending(seq) ==
    \A i, j \in DOMAIN seq :
        i < j => (NumGE(seq[i].mean, seq[j].mean) \/ IsNaN(seq[j].mean))

\* sort_values(ascending=False) with the default kind='quicksort', which is
\* not a stable sort: any descending arrangement of the entries may come out.
SortValues(entries) ==
    { seq \in [1 .. Cardinality(entries) -> entries] :
        /\ \A i, j \in DOMAIN seq : i # j => seq[i] # seq[j]
        /\ Descending(seq) }

\* Series.idxmax() over groups in ascending key order: the least key among
\* those of the largest mean.
IdxMax(entries) ==
    LET best == { e \in entries :
                    \A f \in entries : NumGE(e.mean, f.mean) \/ IsNaN(f.mean) }
    IN  IF best = {} THEN NoData
        ELSE (CHOOSE e \in best : \A f \in best : e.key <= f.key).key

\* df.nlargest(1, col): the first row holding the largest value.
NLargest1(d, col) ==
    LET top == { i \in Idx(d) :
                   \A j \in Idx(d) : NumGE(d.rows[i][col], d.rows[j][col]) }
    IN  IF top = {} THEN <<>>
        ELSE <<d.rows[CHOOSE i \in top : \A j \in top : i <= j]>>

\* What create_industry_analysis(df) computes, for one arrangement of
\* avg_rent_by_sub; "raised" tells that the section ended in an exception
\* (a chart column that is absent, idxmax or values[0] of nothing).
IndustryAnalysis(d, avg) ==
    LET shown == ShowsMetrics(d)
        top == NLargest1(d, "rent_per_area")
    IN  [ metrics |-> shown,
          mean_rent |-> IF shown THEN ColMean(d, "monthlyRent") ELSE NoData,
          mean_deposit |-> IF shown THEN ColMean(d, "deposit") ELSE NoData,
          mean_rent_per_area |->
              IF shown THEN ColMean(d, "rent_per_area") ELSE NoData,
          mean_interest |->
              IF shown THEN ColMean(d, "interestScore") ELSE NoData,
          avg_rent_by_sub |-> avg,
          high_rent_floor |->
              IF shown THEN IdxMax(GroupMeans(d, "floor", "monthlyRent"))
              ELSE NoData,
          raised |-> \/ ~({"floor", "title"} \subseteq d.cols)
                     \/ shown /\ (Empty(d) \/ top = <<>>) ]

NoIndustry ==
    [ metrics |-> FALSE, mean_rent |-> NoData, mean_deposit |-> NoData,
      mean_rent_per_area |-> NoData, mean_interest |-> NoData,
      avg_rent_by_sub |-> <<>>, high_rent_floor |-> NoData, raised |-> FALSE ]

(***************************************************************************)
(* create_search_section.                                                  *)
(***************************************************************************)
\* Case folding over the characters of the model's texts.
Lower(c) == CASE c = "A" -> "a" [] c = "X" -> "x" [] OTHER -> c

\* One pattern character against one text character: str.contains takes the
\* keyword as a regular expression (regex=True is the default), so "." stands
\* for any character; case=False folds case.
PatternChar(p, c) == p = "." \/ Lower(p) = Lower(c)

\* Series.str.contains(kw, case=False, na=False) for one cell.
str_contains(v, kw) ==
    /\ v.k = "str"
    /\ \E i \in 0 .. (Len(v.s) - Len(kw)) :
          \A j \in 1 .. Len(kw) : PatternChar(kw[j], v.s[i + j])

\* if keyword: df[df[col].str.contains(keyword, ...)]
KeywordFilter(d, col, kw) ==
    IF kw = <<>> THEN d
    ELSE Where(d, [i \in Idx(d) |-> str_contains(d.rows[i][col], kw)])

\* search_df[search_df['interestScore'] >= min_interest]
InterestFilter(d, min_interest) ==
    Where(d, [i \in Idx(d) |->
                 NumGE(d.rows[i]["interestScore"], Int2Num(min_interest))])

\* Keywords typed into the two text fields.
TitleKeywords == {<<>>, <<"a">>, <<".">>}
SubwayKeywords == {<<>>, <<"X">>}

\* Largest slider position of the minimum-interest slider that is tried.
MaxThreshold == 3

\* The upper end of the slider when the section is given no rows (line 184).
EmptySliderMax == 100

\* Lines 195-220 raise: a displayed column is absent, or int(x) meets a null
\* amount of a result row.
DisplayRaises(d) ==
    IF ~({"title", "businessMiddleCodeName", "monthlyRent", "deposit",
          "premium", "size"} \subseteq d.cols)
    THEN TRUE
    ELSE \/ \E i \in Idx(d) : \E c \in {"monthlyRent", "deposit", "premium"} :
               IsNaN(d.rows[i][c])
         \/ /\ ~Empty(d)
            /\ ~({"floor", "groundFloor", "rent_per_area", "maintenanceFee",
                  "createdDateUtc", "nearSubwayStation"} \subseteq d.cols)

\* Lines 187-192.
SearchResult(d, search_keyword, subway_keyword, min_interest) ==
    InterestFilter(
        KeywordFilter(KeywordFilter(d, "title", search_keyword),
                      "nearSubwayStation", subway_keyword),
        min_interest)

(***************************************************************************)
(* main: one run per user interaction.                                     *)
(***************************************************************************)
\* EmptyGuard with a fault: the early return of lines 242-244 is gone.
EmptyGuardOff(d) == FALSE

\* if raw_df.empty: warn and return
EmptyGuard(d) == Empty(d)

Init ==
    /\ src \in Sources
    /\ cache = NoEntry
    /\ pc = "idle"
    /\ hit = FALSE
    /\ raw_df = EmptyDataFrame
    /\ df = EmptyDataFrame
    /\ err = "none"
    /\ params = NoParams
    /\ filtered_df = EmptyDataFrame
    /\ industry = NoIndustry
    /\ search_df = EmptyDataFrame
    /\ stages = {}

\* Lines 234-240: raw_df = load_data(...), served from the cache when the
\* key is known.
Load ==
    /\ pc = "idle"
    /\ IF CallsLoad(src)
       THEN IF cache.has
            THEN /\ raw_df' = cache.val
                 /\ hit' = TRUE
                 /\ UNCHANGED cache
            ELSE /\ raw_df' = load_data(src, src.type)
                 /\ hit' = FALSE
                 /\ cache' = [has |-> TRUE, val |-> load_data(src, src.type)]
       ELSE /\ raw_df' = EmptyDataFrame
            /\ UNCHANGED <<hit, cache>>
    /\ pc' = "loaded"
    /\ stages' = {"load"}
    /\ UNCHANGED <<src, df, err, params, filtered_df, industry, search_df>>

\* Lines 242-244: nothing loaded.
Warn ==
    /\ pc = "loaded"
    /\ EmptyGuard(raw_df)
    /\ pc' = "done"
    /\ stages' = stages \cup {"warning"}
    /\ UNCHANGED <<src, cache, hit, raw_df, df, err, params, filtered_df,
                   industry, search_df>>

\* Line 247: df = preprocess_data(raw_df); df and raw_df are one object.
Preprocess ==
    /\ pc = "loaded"
    /\ ~EmptyGuard(raw_df)
    /\ LET out == preprocess_data(raw_df)
       IN  /\ df' = out.df
           /\ raw_df' = out.df
           /\ err' = out.err
           /\ pc' = IF out.err = "none" THEN "preprocessed" ELSE "done"
           /\ cache' = IF cache.has
                       THEN [cache EXCEPT
                               !.val = CacheAfterMutation(cache.val, out.df)]
                       ELSE cache
    /\ stages' = stages \cup {"preprocess"}
    /\ UNCHANGED <<src, hit, params, filtered_df, industry, search_df>>

\* Lines 249-281: the selectors and sliders, filtered_df, and the overview
\* tab (which displays df and keeps no result).  Each slider offers every
\* pair of whole positions between 0 and its upper end.
Filter ==
    /\ pc = "preprocessed"
    /\ stages' = stages \cup {"filter"}
    /\ IF ~(FilterCols \subseteq df.cols)
       THEN /\ err' = "KeyError"
            /\ pc' = "done"
            /\ UNCHANGED <<params, filtered_df>>
       ELSE IF \E c \in {"deposit", "monthlyRent", "size"} : IsNaN(ColMax(df, c))
       THEN /\ err' = "ValueError"
            /\ pc' = "done"
            /\ UNCHANGED <<params, filtered_df>>
       ELSE \E selected_large \in {ALL} \cup Unique(df, "businessLargeCodeName") :
            LET by_large ==
                    CategoryFilter(df, "businessLargeCodeName", selected_large)
            IN  \E selected_middle \in
                     {ALL} \cup Unique(by_large, "businessMiddleCodeName"),
                   dep_range \in RangePairs(SliderMax(df, "deposit", ManWon)),
                   rent_range \in RangePairs(SliderMax(df, "monthlyRent", ManWon)),
                   size_range \in RangePairs(SliderMax(df, "size", 1)) :
                /\ params' = [params EXCEPT
                                !.selected_large = selected_large,
                                !.selected_middle = selected_middle,
                                !.dep_range = dep_range,
                                !.rent_range = rent_range,
                                !.size_range = size_range]
                /\ filtered_df' =
                       RangeFilter(
                           CategoryFilter(by_large, "businessMiddleCodeName",
                                          selected_middle),
                           dep_range, rent_range, size_range)
                /\ pc' = IF OverviewCols \subseteq df.cols
                         THEN "filtered" ELSE "done"
                /\ err' = IF OverviewCols \subseteq df.cols
                          THEN err ELSE "KeyError"
    /\ UNCHANGED <<src, cache, hit, raw_df, df, industry, search_df>>

\* Line 284: create_industry_analysis(filtered_df).
Industry ==
    /\ pc = "filtered"
    /\ \E avg \in SortValues(GroupMeans(filtered_df, "businessMiddleCodeName",
                                        "monthlyRent")) :
          industry' = IndustryAnalysis(filtered_df, avg)
    /\ err' = IF industry'.raised THEN "ValueError" ELSE err
    /\ pc' = IF industry'.raised THEN "done" ELSE "analysed"
    /\ stages' = stages \cup {"industry"}
    /\ UNCHANGED <<src, cache, hit, raw_df, df, params, filtered_df, search_df>>

\* Line 287: create_search_section(filtered_df).
Search ==
    /\ pc = "analysed"
    /\ stages' = stages \cup {"search"}
    /\ pc' = "done"
    /\ IF ~Empty(filtered_df) /\ IsNaN(ColMax(filtered_df, "interestScore"))
       THEN /\ err' = "ValueError"
            /\ UNCHANGED <<params, search_df>>
       ELSE LET hi == IF ~Empty(filtered_df)
                      THEN IntOf(ColMax(filtered_df, "interestScore"))
                      ELSE EmptySliderMax
            IN  \E search_keyword \in TitleKeywords,
                   subway_keyword \in SubwayKeywords,
                   min_interest \in { t \in 0 .. hi : t <= MaxThreshold } :
                    /\ params' = [params EXCEPT
                                    !.search_keyword = search_keyword,
                                    !.subway_keyword = subway_keyword,
                                    !.min_interest = min_interest]
                    /\ search_df' = SearchResult(filtered_df, search_keyword,
                                                 subway_keyword, min_interest)
                    /\ err' = IF DisplayRaises(search_df')
                              THEN "ValueError" ELSE err
    /\ UNCHANGED <<src, cache, hit, raw_df, df, filtered_df, industry>>

\* The script ends; the next interaction runs main again.  Only the cache
\* outlives the run.
Rerun ==
    /\ pc = "done"
    /\ pc' = "idle"
    /\ hit' = FALSE
    /\ raw_df' = EmptyDataFrame
    /\ df' = EmptyDataFrame
    /\ err' = "none"
    /\ params' = NoParams
    /\ filtered_df' = EmptyDataFrame
    /\ industry' = NoIndustry
    /\ search_df' = EmptyDataFrame
    /\ stages' = {}
    /\ UNCHANGED <<src, cache>>

Next == Load \/ Warn \/ Preprocess \/ Filter \/ Industry \/ Search \/ Rerun

Spec == Init /\ [][Next]_vars

(***************************************************************************)
(* preprocess_data taken alone, over sources with missing columns and      *)
(* malformed values.                                                       *)
(***************************************************************************)
InitPre ==
    /\ src \in { [type |-> "CSV", paths |-> {}, readable |-> FALSE,
                  file |-> "good", data |-> d] : d \in PreInputs }
    /\ cache = NoEntry
    /\ pc = "loaded"
    /\ hit = FALSE
    /\ raw_df = src.data
    /\ df = EmptyDataFrame
    /\ err = "none"
    /\ params = NoParams
    /\ filtered_df = EmptyDataFrame
    /\ industry = NoIndustry
    /\ search_df = EmptyDataFrame
    /\ stages = {"load"}

\* preprocess_data(raw_df), empty input included (line 54).
PreprocessCall ==
    /\ pc = "loaded"
    /\ LET out == preprocess_data(raw_df)
       IN  /\ df' = out.df
           /\ raw_df' = out.df
           /\ err' = out.err
    /\ pc' = "done"
    /\ stages' = stages \cup {"preprocess"}
    /\ UNCHANGED <<src, cache, hit, params, filtered_df, industry, search_df>>

NextPre == PreprocessCall

SpecPre == InitPre /\ [][NextPre]_vars

(***************************************************************************)
(* The claims.                                                             *)
(***************************************************************************)
\* conv is raw times 1000 (a null stays null).
TimesUnit(raw, conv) ==
    IF IsNaN(raw) THEN IsNaN(conv)
    ELSE ~IsNaN(conv) /\ conv.n * raw.d = 1000 * raw.n * conv.d

Preprocessed == "preprocess" \in stages

\* C1: in every run, cached or not, once preprocess_data has run each
\* monetary field of each record of df is its source value times 1000.
C1_ConvertedExactlyOnce ==
    Preprocessed =>
        /\ Len(df.rows) = Len(src.data.rows)
        /\ \A i \in Idx(df) : \A c \in amount_cols \cap src.data.cols :
              TimesUnit(src.data.rows[i][c], df.rows[i][c])

\* A later run, served from the cache, has enriched a listing with a
\* non-zero deposit.
C1_Witness ==
    /\ hit /\ Preprocessed /\ err = "none" /\ pc = "done"
    /\ \E i \in Idx(df) : df.rows[i]["deposit"] = Int2Num(15000)

\* preprocess_data returned for a non-empty source.
Enriched == pc = "done" /\ Preprocessed /\ err = "none" /\ ~Empty(src.data)

\* A counter that is absent or null counts as 0.
CounterOrZero(d, i, col) ==
    IF col \notin d.cols \/ IsNaN(d.rows[i][col]) THEN Int2Num(0)
    ELSE d.rows[i][col]

\* C2: after preprocess_data, interestScore = viewCount + 3 * favoriteCount
\* for every record, an absent or null counter taken as 0.
C2_InterestScore ==
    Enriched =>
        \A i \in Idx(df) :
            LET v == CounterOrZero(src.data, i, "viewCount")
                f == CounterOrZero(src.data, i, "favoriteCount")
                score == df.rows[i]["interestScore"]
            IN  /\ ~IsNaN(score)
                /\ score.n * v.d * f.d = score.d * (v.n * f.d + 3 * f.n * v.d)
                /\ (v.n >= 0 /\ f.n >= 0) => score.n >= 0

\* The ratio of the converted rent of raw to a positive size.
IsRentOverSize(rpa, rent, size) ==
    IF IsNaN(rent) THEN IsNaN(rpa)
    ELSE ~IsNaN(rpa) /\ rpa.n * size.n * rent.d = 1000 * rent.n * size.d * rpa.d

\* C3: after preprocess_data, rent_per_area is the converted monthlyRent
\* over size when size > 0 and 0 when size <= 0; the worked example gives
\* monthlyRent 50000, 80000, 30000 and rent_per_area 5000, 4000, 0.
C3_RentPerArea ==
    Enriched =>
        /\ \A i \in Idx(df) :
              LET size == src.data.rows[i]["size"]
                  rpa == df.rows[i]["rent_per_area"]
              IN  /\ NumGT(size, Int2Num(0)) =>
                        IsRentOverSize(rpa, src.data.rows[i]["monthlyRent"], size)
                  /\ NumLE(size, Int2Num(0)) => rpa = Int2Num(0)
        /\ src.data = DataFrame(AllCols, Example) =>
              /\ Column(df, "monthlyRent")
                   = <<Int2Num(50000), Int2Num(80000), Int2Num(30000)>>
              /\ Column(df, "rent_per_area")
                   = <<Int2Num(5000), Int2Num(4000), Int2Num(0)>>

\* The worked example has been enriched.
C3_Witness == Enriched /\ src.data = DataFrame(AllCols, Example)

Filtered ==
    "filter" \in stages /\ pc \in {"filtered", "analysed", "done"} /\ err = "none"

Searched == "search" \in stages /\ err = "none"

\* No predicate is in effect: selectors at the sentinel, sliders at their
\* default full extent.
NoSidebarPredicate ==
    /\ params.selected_large = ALL
    /\ params.selected_middle = ALL
    /\ params.dep_range = DefaultRange(SliderMax(df, "deposit", ManWon))
    /\ params.rent_range = DefaultRange(SliderMax(df, "monthlyRent", ManWon))
    /\ params.size_range = DefaultRange(SliderMax(df, "size", 1))

NoSearchPredicate ==
    /\ params.search_keyword = <<>>
    /\ params.subway_keyword = <<>>
    /\ params.min_interest = 0

\* C4: with no predicate in effect, the filtered dataset and the search
\* results hold exactly the records of the enriched dataset.
C4_NoPredicateIsIdentity ==
    /\ (Filtered /\ NoSidebarPredicate) => filtered_df.rows = df.rows
    /\ (Searched /\ NoSidebarPredicate /\ NoSearchPredicate) =>
           search_df.rows = df.rows

\* Case-insensitive substring containment; a null text never matches.
ContainsKeyword(v, kw) ==
    /\ v.k = "str"
    /\ \E i \in 0 .. (Len(v.s) - Len(kw)) :
          \A j \in 1 .. Len(kw) : Lower(kw[j]) = Lower(v.s[i + j])

\* The conjunction of the active predicates on one enriched record.
SatisfiesAll(r) ==
    /\ params.selected_large # ALL =>
           r["businessLargeCodeName"] = params.selected_large
    /\ params.selected_middle # ALL =>
           r["businessMiddleCodeName"] = params.selected_middle
    /\ NumGE(r["deposit"], Int2Num(params.dep_range[1] * ManWon))
    /\ NumLE(r["deposit"], Int2Num(params.dep_range[2] * ManWon))
    /\ NumGE(r["monthlyRent"], Int2Num(params.rent_range[1] * ManWon))
    /\ NumLE(r["monthlyRent"], Int2Num(params.rent_range[2] * ManWon))
    /\ NumGE(r["size"], Int2Num(params.size_range[1]))
    /\ NumLE(r["size"], Int2Num(params.size_range[2]))
    /\ params.search_keyword # <<>> =>
           ContainsKeyword(r["title"], params.search_keyword)
    /\ params.subway_keyword # <<>> =>
           ContainsKeyword(r["nearSubwayStation"], params.subway_keyword)
    /\ NumGE(r["interestScore"], Int2Num(params.min_interest))

\* C5: the search results are exactly the records of the enriched dataset
\* that satisfy every active predicate, whatever the order of application.
C5_SearchIsConjunction ==
    Searched =>
        search_df.rows
          = MaskRows(df.rows, [i \in Idx(df) |-> SatisfiesAll(df.rows[i])], 1)

\* C6: preprocess_data does not raise on a non-empty source that lacks an
\* expected column; the column stays absent and every other conversion and
\* derivation is performed.
C6_MissingColumnTolerated ==
    (pc = "done" /\ Preprocessed /\ ~Empty(src.data)
       /\ \E c \in ExpectedCols : src.data.cols = AllCols \ {c}) =>
        /\ err # "KeyError"
        /\ df.cols \cap AllCols = src.data.cols
        /\ \A i \in Idx(df) : \A c \in amount_cols \cap src.data.cols :
              TimesUnit(src.data.rows[i][c], df.rows[i][c])

\* C7: with a creation-timestamp column, preprocess_data never raises over
\* a malformed value: parseable values become timestamps, the others null.
C7_MalformedTimestampIsNull ==
    (pc = "done" /\ Preprocessed /\ ~Empty(src.data)
       /\ src.data.cols = AllCols) =>
        /\ err # "ValueError"
        /\ err = "none" =>
              \A i \in Idx(df) :
                  LET raw == src.data.rows[i]["createdDateUtc"]
                  IN  df.rows[i]["createdDateUtc"]
                        = IF Parseable(raw) THEN to_datetime(raw) ELSE NaT

\* C8: in a run whose source is unavailable or unreadable the load stage
\* yields an empty dataset without raising and the run ends there: no
\* preprocessing, filtering or aggregation step is executed.
C8_UnavailableEndsAtLoad ==
    SourceUnavailable(src) =>
        /\ stages \subseteq {"load", "warning"}
        /\ Empty(raw_df) /\ err = "none"
        /\ pc \in {"idle", "loaded", "done"}
        /\ cache.has => Empty(cache.val)

\* A run over a store that exists but cannot be queried has ended with the
\* warning.
C8_Witness ==
    /\ src.type = "DB" /\ src.paths = {AlternatePath} /\ ~src.readable
    /\ ~Empty(src.data)
    /\ pc = "done" /\ stages = {"load", "warning"}

\* C9: an aggregation given an empty dataset computes no mean, arg-max
\* group or top record, raises nothing and shows no NaN; a run whose loaded
\* dataset is empty ends with the warning before any aggregation.
C9_EmptyAggregationIsNoData ==
    /\ ("industry" \in stages /\ Empty(filtered_df)) =>
           /\ ~industry.metrics /\ ~industry.raised /\ err = "none"
           /\ industry.mean_rent = NoData /\ industry.mean_deposit = NoData
           /\ industry.mean_rent_per_area = NoData
           /\ industry.mean_interest = NoData
           /\ industry.high_rent_floor = NoData
           /\ industry.avg_rent_by_sub = <<>>
           /\ "search" \in stages => Empty(search_df)
    /\ (pc = "done" /\ Empty(raw_df)) =>
           /\ "warning" \in stages
           /\ stages \cap {"filter", "industry", "search"} = {}

\* The filters selected no record of a non-empty enriched dataset and both
\* sections have run.
C9_Witness ==
    /\ ~Empty(df) /\ Empty(filtered_df)
    /\ {"industry", "search"} \subseteq stages /\ pc = "done"

\* Lexical rank of the middle-category names of the model's listings.
LexRank(name) == CASE name = "bar" -> 1 [] name = "cafe" -> 2 [] name = "gym" -> 3

=============================================================================
